---------------------------- MODULE Spec2Model ----------------------------
(***************************************************************************)
(* Model of the Telegram file converter bot (src/bot.py, the multi-format  *)
(* variant, and src/bot_simple.py, the image-only variant).                *)
(*                                                                         *)
(* The state is the per-user 'current_file' slot (context.user_data), the  *)
(* updates that have arrived for the bot, the handler task of each update  *)
(* with its position and locals, the inline keyboards still attached to    *)
(* the bot's messages, and the temporary directories on disk.              *)
(*                                                                         *)
(* Strings whose characters matter (file suffixes, callback data) are      *)
(* sequences of one-character strings, so that lower(), fmt[1:] and        *)
(* replace() are computed and not assumed.                                 *)
(***************************************************************************)
EXTENDS Integers, Sequences, FiniteSets, TLC

\* ------------------------------------------------------------------ bounds
\* Total number of updates (uploads and button presses) that arrive.
MaxEvents == 3

\* ------------------------------------------------------------- characters
DOT == "."

LowerCase == <<"a", "b", "c", "d", "e", "f", "g", "h", "i", "j", "k", "l", "m",
               "n", "o", "p", "q", "r", "s", "t", "u", "v", "w", "x", "y", "z">>

UpperCase == <<"A", "B", "C", "D", "E", "F", "G", "H", "I", "J", "K", "L", "M",
               "N", "O", "P", "Q", "R", "S", "T", "U", "V", "W", "X", "Y", "Z">>

\* str.lower() on one character: letters only, digits and the dot stay.
LowerChar(c) ==
    IF \E i \in DOMAIN UpperCase : UpperCase[i] = c
    THEN LowerCase[CHOOSE i \in DOMAIN UpperCase : UpperCase[i] = c]
    ELSE c

\* str.upper() on one character.
UpperChar(c) ==
    IF \E i \in DOMAIN LowerCase : LowerCase[i] = c
    THEN UpperCase[CHOOSE i \in DOMAIN LowerCase : LowerCase[i] = c]
    ELSE c

\* str.lower()
Lower(s) == [i \in DOMAIN s |-> LowerChar(s[i])]

\* str.upper()
Upper(s) == [i \in DOMAIN s |-> UpperChar(s[i])]

\* ------------------------------------------------------------ the tables
JPG  == <<DOT, "j", "p", "g">>
JPEG == <<DOT, "j", "p", "e", "g">>
PNG  == <<DOT, "p", "n", "g">>
BMP  == <<DOT, "b", "m", "p">>
GIF  == <<DOT, "g", "i", "f">>
TIFF == <<DOT, "t", "i", "f", "f">>
WEBP == <<DOT, "w", "e", "b", "p">>
PDF  == <<DOT, "p", "d", "f">>
DOCX == <<DOT, "d", "o", "c", "x">>
TXT  == <<DOT, "t", "x", "t">>
MP4  == <<DOT, "m", "p", "4">>
AVI  == <<DOT, "a", "v", "i">>
MOV  == <<DOT, "m", "o", "v">>
MKV  == <<DOT, "m", "k", "v">>
WEBM == <<DOT, "w", "e", "b", "m">>
MP3  == <<DOT, "m", "p", "3">>
CSV  == <<DOT, "c", "s", "v">>
XLSX == <<DOT, "x", "l", "s", "x">>
JSON == <<DOT, "j", "s", "o", "n">>
ZIP  == <<DOT, "z", "i", "p">>
JPG_UPPER == <<DOT, "J", "P", "G">>

Variants == {"bot", "simple"}

\* FileConverter.SUPPORTED_CONVERSIONS, in dictionary order.
SUPPORTED_CONVERSIONS(v) ==
    IF v = "bot"
    THEN << [category |-> "image",
             from |-> <<JPG, JPEG, PNG, BMP, GIF, TIFF, WEBP>>,
             to   |-> <<JPG, PNG, PDF, WEBP>>],
            [category |-> "document",
             from |-> <<PDF, DOCX, TXT>>,
             to   |-> <<PDF, TXT, DOCX>>],
            [category |-> "video",
             from |-> <<MP4, AVI, MOV, MKV, WEBM>>,
             to   |-> <<MP4, GIF, MP3>>],
            [category |-> "data",
             from |-> <<CSV, XLSX, JSON>>,
             to   |-> <<CSV, XLSX, JSON>>] >>
    ELSE << [category |-> "image",
             from |-> <<JPG, JPEG, PNG, BMP, GIF, TIFF, WEBP>>,
             to   |-> <<JPG, PNG, WEBP>>] >>

\* x in list
InList(x, list) == \E i \in DOMAIN list : list[i] = x

\* FileConverter.get_file_category: the first category, in table order,
\* whose 'from' list holds extension.lower(); 'unknown' when there is none.
\* (get_file_category_exact looks the extension up as it is spelled.)
get_file_category_exact(v, extension) ==
    LET table == SUPPORTED_CONVERSIONS(v)
        hits  == {i \in DOMAIN table : InList(extension, table[i].from)}
    IN  IF hits = {} THEN "unknown"
        ELSE table[CHOOSE i \in hits : \A j \in hits : i <= j].category

get_file_category(v, extension) ==
    LET table == SUPPORTED_CONVERSIONS(v)
        hits  == {i \in DOMAIN table : InList(Lower(extension), table[i].from)}
    IN  IF hits = {} THEN "unknown"
        ELSE table[CHOOSE i \in hits : \A j \in hits : i <= j].category

\* SUPPORTED_CONVERSIONS[file_category]['to']
AvailableFormats(v, category) ==
    LET table == SUPPORTED_CONVERSIONS(v)
    IN  table[CHOOSE i \in DOMAIN table : table[i].category = category].to

\* 50 * 1024 * 1024
MAX_FILE_SIZE == 50 * 1024 * 1024

\* ------------------------------------------------------------- the inputs
Keys == {"u1", "u2"}

\* Uploaded files: Path(file_name).stem, Path(file_name).suffix, file_size.
Uploads ==
    { [stem |-> "photo",   suffix |-> PNG,       file_size |-> 10240],
      [stem |-> "pic",     suffix |-> JPG_UPPER, file_size |-> MAX_FILE_SIZE],
      [stem |-> "big",     suffix |-> PNG,       file_size |-> MAX_FILE_SIZE + 1],
      [stem |-> "archive", suffix |-> ZIP,       file_size |-> 10240] }

\* 'current_file' not in context.user_data
NoFile == [file_id |-> 0, stem |-> "", suffix |-> <<>>, file_size |-> 0,
           category |-> "unknown"]

\* ----------------------------------------------------------- process_file
\* [fmt for fmt in available_formats if fmt != current_format]
\* (conversion_options_exact compares with the extension as it is spelled,
\* conversion_options_all removes nothing.)
conversion_options_exact(v, category, file_extension) ==
    LET Keep(fmt) == fmt # file_extension
    IN  SelectSeq(AvailableFormats(v, category), Keep)

conversion_options_all(v, category, file_extension) ==
    AvailableFormats(v, category)

conversion_options(v, category, file_extension) ==
    LET current_format == Lower(file_extension)
        Keep(fmt) == fmt # current_format
    IN  SelectSeq(AvailableFormats(v, category), Keep)

\* f"convert_{fmt[1:]}": the prefix is one token, the rest is fmt without
\* its dot.
callback_data(fmt) == <<"convert_">> \o Tail(fmt)

\* The inline keyboard: one button per option, in order.
Keyboard(options) == [i \in DOMAIN options |-> callback_data(options[i])]

\* The size check of process_file.  In src/bot.py the name MAX_FILE_SIZE
\* is a class attribute read as a bare name inside the method, which
\* raises NameError; src/bot_simple.py reads self.MAX_FILE_SIZE.
SizeCheck(v, file_size) ==
    IF v = "bot" THEN "NameError"
    ELSE IF file_size > MAX_FILE_SIZE THEN "too_large" ELSE "ok"

\* context.user_data['current_file'] = {...}: an unconditional overwrite.
\* (StoreIfAbsent keeps an earlier file instead.)
StoreIfAbsent(slot, stored) == IF slot = NoFile THEN stored ELSE slot

Store(slot, stored) == stored

\* The 'return' of a rejection comes before the assignment to
\* context.user_data: the slot keeps what it held.
\* (StoreBeforeReturn is the assignment made ahead of the checks.)
StoreBeforeReturn(slot, stored) == stored

ReturnBeforeStore(slot, stored) == slot

\* TelegramBot.process_file on the slot of the uploading user: the new
\* slot, the outbound messages issued, the keyboard sent with the offer,
\* and whether an exception left the handler.
process_file(v, slot, file_id, up) ==
    LET check    == SizeCheck(v, up.file_size)
        category == get_file_category(v, up.suffix)
        stored   == [file_id |-> file_id, stem |-> up.stem,
                     suffix |-> up.suffix, file_size |-> up.file_size,
                     category |-> category]
        options  == conversion_options(v, category, up.suffix)
    IN  IF check = "NameError"
        THEN [slot |-> slot, out |-> <<>>, keyboard |-> <<>>, raised |-> TRUE]
        ELSE IF check = "too_large"
        THEN [slot |-> ReturnBeforeStore(slot, stored),
              out |-> <<"too_large">>, keyboard |-> <<>>, raised |-> FALSE]
        ELSE IF category = "unknown"
        THEN [slot |-> ReturnBeforeStore(slot, stored),
              out |-> <<"unsupported">>, keyboard |-> <<>>, raised |-> FALSE]
        ELSE IF options = <<>>
        THEN [slot |-> Store(slot, stored), out |-> <<"no_options">>,
              keyboard |-> <<>>,
              raised |-> FALSE]
        ELSE [slot |-> Store(slot, stored), out |-> <<"offer">>,
              keyboard |-> Keyboard(options), raised |-> FALSE]

\* ------------------------------------------------------------ converters
\* query.data.replace('convert_', '')
target_format_of(data) ==
    LET Keep(c) == c # "convert_"
    IN  SelectSeq(data, Keep)

\* What the codec calls of a converter do: they work, the read of the
\* source raises, or the write raises before or after it has created the
\* output file.
CodecOutcomes == {"ok", "open_raises", "raises", "raises_after_write"}

\* The output path exists after the converter's write call.
Written(codec) == codec \in {"ok", "raises_after_write"}

\* What a converter returns and leaves behind: its boolean, whether the
\* output exists, whether its except clause caught an exception, and the
\* media handles it opened and closed.
Result(success, written, caught, opened, closed) ==
    [success |-> success, written |-> written, caught |-> caught,
     opened |-> opened, closed |-> closed]

\* FileConverter.convert_image: True when img.save returned, False when
\* anything raised (the with block closes the image either way).
convert_image(target_format, codec) ==
    Result(codec = "ok", Written(codec), codec # "ok", 0, 0)

\* FileConverter.convert_document: three directed pairs, each returning
\* True when its codec calls returned; any other pair falls through to the
\* final 'return False'.
convert_document(suffix, target_format, codec) ==
    LET input_ext == Lower(suffix)
        has_branch ==
            \/ input_ext = PDF  /\ target_format = Tail(TXT)
            \/ input_ext = DOCX /\ target_format = Tail(TXT)
            \/ input_ext = TXT  /\ target_format = Tail(PDF)
    IN  IF has_branch
        THEN Result(codec = "ok", Written(codec), codec # "ok", 0, 0)
        ELSE Result(FALSE, FALSE, FALSE, 0, 0)

\* The clips convert_video opens: one, and on the gif path a second one
\* that is only asked for its duration.
ClipsOpened(target_format, codec) ==
    IF codec = "open_raises" THEN 0
    ELSE IF target_format = Tail(GIF) THEN 2 ELSE 1

\* clip.close() is the statement after the write: it runs once, and only
\* when the write returned.
ClipsClosed(target_format, codec) == IF codec = "ok" THEN 1 ELSE 0

\* FileConverter.convert_video: mp3, gif, or (for every other target) the
\* full re-encode; True when the write and the close returned.
convert_video(target_format, codec) ==
    Result(codec = "ok", Written(codec), codec # "ok",
           ClipsOpened(target_format, codec), ClipsClosed(target_format, codec))

\* FileConverter.convert_data: read by input extension (False when it is
\* none of the three), write by target; a target that is none of the three
\* writes nothing and still reaches 'return True'.
convert_data(suffix, target_format, codec) ==
    LET input_ext == Lower(suffix)
        writes    == target_format \in {Tail(CSV), Tail(XLSX), Tail(JSON)}
    IN  IF input_ext \notin {CSV, XLSX, JSON}
        THEN Result(FALSE, FALSE, FALSE, 0, 0)
        ELSE IF codec = "open_raises"
        THEN Result(FALSE, FALSE, TRUE, 0, 0)
        ELSE IF writes
        THEN Result(codec = "ok", Written(codec), codec # "ok", 0, 0)
        ELSE Result(TRUE, FALSE, FALSE, 0, 0)

\* TelegramBot.convert_file: dispatch on the category (src/bot_simple.py
\* has the image branch only).
convert_file(v, category, suffix, target_format, codec) ==
    IF category = "image"
    THEN convert_image(target_format, codec)
    ELSE IF v = "bot" /\ category = "document"
    THEN convert_document(suffix, target_format, codec)
    ELSE IF v = "bot" /\ category = "video"
    THEN convert_video(target_format, codec)
    ELSE IF v = "bot" /\ category = "data"
    THEN convert_data(suffix, target_format, codec)
    ELSE Result(FALSE, FALSE, FALSE, 0, 0)

\* ----------------------------------------------------------------- state
VARIABLES
    variant,     \* which of the two programs runs
    user_data,   \* context.user_data[...]['current_file'] of each user
    tasks,       \* one handler task per arrived update, in arrival order
    kb,          \* the inline keyboard attached to the reply to update u
    disk,        \* the updates whose temporary directory exists on disk
    probe        \* the last direct call of a pure function and its result

vars == <<variant, user_data, tasks, kb, disk, probe>>

\* A converter's result when none was called.
NoResult == Result(FALSE, FALSE, FALSE, 0, 0)

NoProbe == [op |-> "none", base |-> <<>>, ext |-> <<>>, category |-> "unknown",
            options |-> <<>>, target |-> <<>>, codec |-> "none",
            result |-> NoResult]

NoUpload == [stem |-> "", suffix |-> <<>>, file_size |-> 0]

\* Positions of a handler that has started and not finished.
Running == {"answer", "check", "download", "convert", "hung", "deliver",
            "notify", "cleanup", "except"}

Ids == 1..Len(tasks)

NewTask(type, key, up, msg, data) ==
    [type |-> type, key |-> key, up |-> up, msg |-> msg, data |-> data,
     pc |-> "queued", file_info |-> NoFile, target_format |-> <<>>,
     temp_dir |-> FALSE, converted |-> FALSE, success |-> FALSE,
     exists |-> FALSE, error |-> "none",
     out |-> <<>>, raised |-> FALSE]

Init ==
    /\ variant \in Variants
    /\ user_data = [k \in Keys |-> NoFile]
    /\ tasks = <<>>
    /\ kb = [u \in 1..MaxEvents |-> <<>>]
    /\ disk = {}
    /\ probe = NoProbe

\* --------------------------------------------------------------- arrivals
\* A user sends a file (handle_document / handle_photo will get it).
ArriveUpload(k, up) ==
    /\ Len(tasks) < MaxEvents
    /\ tasks' = Append(tasks, NewTask("doc", k, up, 0, <<>>))
    /\ UNCHANGED <<probe, variant, user_data, kb, disk>>

\* A user presses button i of the keyboard still attached to message m.
ArrivePress(k, m, i) ==
    /\ Len(tasks) < MaxEvents
    /\ i \in DOMAIN kb[m]
    /\ tasks' = Append(tasks, NewTask("cb", k, NoUpload, m, kb[m][i]))
    /\ UNCHANGED <<probe, variant, user_data, kb, disk>>

\* --------------------------------------------------------------- dispatch
\* Application.builder().token(token).build() leaves concurrent_updates
\* off: run_polling hands the next update to its handler only when the
\* handler of the previous one has returned, in arrival order.
\* (CanDispatchConcurrent is the dispatcher with concurrent updates on.)
CanDispatchConcurrent(u) ==
    /\ u \in Ids
    /\ tasks[u].pc = "queued"

CanDispatch(u) ==
    /\ u \in Ids
    /\ tasks[u].pc = "queued"
    /\ \A w \in Ids : tasks[w].pc \notin Running
    /\ \A w \in Ids : w < u => tasks[w].pc = "done"

Set(u, fields) == [tasks EXCEPT ![u] = fields]

\* context.user_data is the dictionary of the user the update comes from.
\* (SessionKeyShared is one slot for everybody.)
SessionKeyShared(t) == "u1"

SessionKey(t) == t.key

\* "Conversion failed. Please try again."
FailureMessage == "failed"

\* "An error occurred during conversion."
\* (ErrorMessageAsFailure is the except clause repeating the failure text.)
ErrorMessageAsFailure == "failed"

ErrorMessage == "error"

\* An exception raised by 'call' inside the try block: control goes to the
\* except clause.
Raise(t, call) == [t EXCEPT !.pc = "except", !.error = call]

\* A handler issues an outbound message.
Emit(t, m) == [t EXCEPT !.out = Append(@, m)]

\* The handler returns.
Return(t) == [t EXCEPT !.pc = "done"]

\* An exception leaves the handler (the application logs it).
Escape(t) == [t EXCEPT !.pc = "done", !.raised = TRUE]

\* query.edit_message_text(text) that succeeded replaces the message and
\* drops its inline keyboard.
Edited(m) == [kb EXCEPT ![m] = <<>>]

\* ----------------------------------------------------------------- uploads
\* handle_document / handle_photo -> process_file, the whole handler.
HandleDocument(u) ==
    /\ CanDispatch(u)
    /\ tasks[u].type = "doc"
    /\ LET t == tasks[u]
           r == process_file(variant, user_data[SessionKey(t)], u, t.up)
       IN  /\ user_data' = [user_data EXCEPT ![SessionKey(t)] = r.slot]
           /\ kb' = [kb EXCEPT ![u] = r.keyboard]
           /\ tasks' = Set(u, [t EXCEPT !.pc = "done", !.out = r.out,
                                        !.raised = r.raised])
    /\ UNCHANGED <<probe, variant, disk>>

\* ------------------------------------------------------- handle_conversion
\* The dispatcher starts handle_conversion for a pressed button.
StartConversion(u) ==
    /\ CanDispatch(u)
    /\ tasks[u].type = "cb"
    /\ tasks' = Set(u, [tasks[u] EXCEPT !.pc = "answer"])
    /\ UNCHANGED <<probe, variant, user_data, kb, disk>>

\* 'current_file' not in context.user_data
\* (NoCurrentFileSkipped is the handler without that check.)
NoCurrentFileSkipped(slot) == FALSE

NoCurrentFile(slot) == slot = NoFile

\* await query.answer()
Answer(u, ok) ==
    /\ u \in Ids
    /\ tasks[u].pc = "answer"
    /\ tasks' = Set(u, IF ok THEN [tasks[u] EXCEPT !.pc = "check"]
                             ELSE Escape(tasks[u]))
    /\ UNCHANGED <<probe, variant, user_data, kb, disk>>

\* The 'current_file' check, the capture of target_format and file_info,
\* and the progress message (which is outside the try block).
CheckFile(u, ok) ==
    /\ u \in Ids
    /\ tasks[u].pc = "check"
    /\ LET t == tasks[u]
       IN  IF NoCurrentFile(user_data[SessionKey(t)])
           THEN /\ tasks' = Set(u, IF ok THEN Return(Emit(t, "no_file"))
                                         ELSE Escape(Emit(t, "no_file")))
                /\ kb' = IF ok THEN Edited(t.msg) ELSE kb
           ELSE LET c == [t EXCEPT !.target_format = target_format_of(t.data),
                                   !.file_info = user_data[SessionKey(t)]]
                IN  /\ tasks' = Set(u, IF ok
                                THEN [Emit(c, "converting") EXCEPT !.pc = "download"]
                                ELSE Escape(Emit(c, "converting")))
                    /\ kb' = IF ok THEN Edited(t.msg) ELSE kb
    /\ UNCHANGED <<probe, variant, user_data, disk>>

DownloadOutcomes == {"ok", "mkdtemp_raises", "get_file_raises",
                     "download_raises"}

\* tempfile.mkdtemp(), context.bot.get_file, file.download_to_drive
Download(u, outcome) ==
    /\ u \in Ids
    /\ tasks[u].pc = "download"
    /\ outcome \in DownloadOutcomes
    /\ LET t == tasks[u]
           h == [t EXCEPT !.temp_dir = TRUE]
       IN  IF outcome = "mkdtemp_raises"
           THEN /\ tasks' = Set(u, Raise(t, "mkdtemp"))
                /\ disk' = disk
           ELSE /\ tasks' = Set(u,
                     CASE outcome = "ok" -> [h EXCEPT !.pc = "convert"]
                       [] outcome = "get_file_raises" -> Raise(h, "get_file")
                       [] outcome = "download_raises" -> Raise(h, "download"))
                /\ disk' = disk \cup {u}
    /\ UNCHANGED <<probe, variant, user_data, kb>>

\* output_path == input_path: f"{stem}.{target_format}" is the name of the
\* downloaded file itself.
SamePath(file_info, target_format) ==
    file_info.suffix = <<DOT>> \o target_format

\* success = convert_file(...), then os.path.exists(output_path)
Convert(u, codec) ==
    /\ u \in Ids
    /\ tasks[u].pc = "convert"
    /\ codec \in CodecOutcomes
    /\ LET t == tasks[u]
           r == convert_file(variant, t.file_info.category, t.file_info.suffix,
                             t.target_format, codec)
       IN  tasks' = Set(u, [t EXCEPT !.converted = TRUE, !.success = r.success,
                       !.exists = r.written \/ SamePath(t.file_info, t.target_format),
                       !.pc = "deliver"])
    /\ UNCHANGED <<probe, variant, user_data, kb, disk>>

\* The converter call never returns.  convert_file is called inline, with
\* no timeout and no worker: the handler stays inside the call.
Hang(u) ==
    /\ u \in Ids
    /\ tasks[u].pc = "convert"
    /\ tasks' = Set(u, [tasks[u] EXCEPT !.pc = "hung"])
    /\ UNCHANGED <<probe, variant, user_data, kb, disk>>

\* if success and os.path.exists(output_path)
\* (ShouldSendIfExists leaves the converter's result out of the test.)
ShouldSendIfExists(t) == t.exists

ShouldSend(t) == t.success /\ t.exists

\* The branch on the outcome: send_document, or the failure message.
Deliver(u, ok) ==
    /\ u \in Ids
    /\ tasks[u].pc = "deliver"
    /\ LET t == tasks[u]
       IN  IF ShouldSend(t)
           THEN /\ tasks' = Set(u, IF ok
                                THEN [Emit(t, "document") EXCEPT !.pc = "notify"]
                                ELSE Raise(Emit(t, "document"), "send_document"))
                /\ kb' = kb
           ELSE /\ tasks' = Set(u, IF ok
                                THEN [Emit(t, FailureMessage) EXCEPT !.pc = "cleanup"]
                                ELSE Raise(Emit(t, FailureMessage), "edit_message_text"))
                /\ kb' = IF ok THEN Edited(t.msg) ELSE kb
    /\ UNCHANGED <<probe, variant, user_data, disk>>

\* query.edit_message_text("Conversion completed successfully!")
Notify(u, ok) ==
    /\ u \in Ids
    /\ tasks[u].pc = "notify"
    /\ tasks' = Set(u, IF ok
                        THEN [Emit(tasks[u], "completed") EXCEPT !.pc = "cleanup"]
                        ELSE Raise(Emit(tasks[u], "completed"), "edit_message_text"))
    /\ kb' = IF ok THEN Edited(tasks[u].msg) ELSE kb
    /\ UNCHANGED <<probe, variant, user_data, disk>>

\* shutil.rmtree(temp_dir, ignore_errors=True), the end of the try block
Cleanup(u) ==
    /\ u \in Ids
    /\ tasks[u].pc = "cleanup"
    /\ disk' = disk \ {u}
    /\ tasks' = Set(u, Return(tasks[u]))
    /\ UNCHANGED <<probe, variant, user_data, kb>>

\* except Exception: the error message, then the handler returns.
Except(u, ok) ==
    /\ u \in Ids
    /\ tasks[u].pc = "except"
    /\ tasks' = Set(u, IF ok THEN Return(Emit(tasks[u], ErrorMessage))
                             ELSE Escape(Emit(tasks[u], ErrorMessage)))
    /\ kb' = IF ok THEN Edited(tasks[u].msg) ELSE kb
    /\ UNCHANGED <<probe, variant, user_data, disk>>

\* ------------------------------------------------------------------- spec
Next ==
    \/ \E k \in Keys, up \in Uploads : ArriveUpload(k, up)
    \/ \E k \in Keys, m \in 1..MaxEvents, i \in 1..4 : ArrivePress(k, m, i)
    \/ \E u \in 1..MaxEvents : HandleDocument(u)
    \/ \E u \in 1..MaxEvents : StartConversion(u)
    \/ \E u \in 1..MaxEvents, ok \in BOOLEAN : Answer(u, ok)
    \/ \E u \in 1..MaxEvents, ok \in BOOLEAN : CheckFile(u, ok)
    \/ \E u \in 1..MaxEvents, o \in DownloadOutcomes : Download(u, o)
    \/ \E u \in 1..MaxEvents, c \in CodecOutcomes : Convert(u, c)
    \/ \E u \in 1..MaxEvents : Hang(u)
    \/ \E u \in 1..MaxEvents, ok \in BOOLEAN : Deliver(u, ok)
    \/ \E u \in 1..MaxEvents, ok \in BOOLEAN : Notify(u, ok)
    \/ \E u \in 1..MaxEvents : Cleanup(u)
    \/ \E u \in 1..MaxEvents, ok \in BOOLEAN : Except(u, ok)

Spec == Init /\ [][Next]_vars

\* The steps the event loop takes by itself: dispatching the next update
\* and running a handler up to its return.  Arrivals and a converter call
\* that never returns are the environment's.
HandlerStep ==
    \/ \E u \in 1..MaxEvents : HandleDocument(u)
    \/ \E u \in 1..MaxEvents : StartConversion(u)
    \/ \E u \in 1..MaxEvents, ok \in BOOLEAN : Answer(u, ok)
    \/ \E u \in 1..MaxEvents, ok \in BOOLEAN : CheckFile(u, ok)
    \/ \E u \in 1..MaxEvents, o \in DownloadOutcomes : Download(u, o)
    \/ \E u \in 1..MaxEvents, c \in CodecOutcomes : Convert(u, c)
    \/ \E u \in 1..MaxEvents, ok \in BOOLEAN : Deliver(u, ok)
    \/ \E u \in 1..MaxEvents, ok \in BOOLEAN : Notify(u, ok)
    \/ \E u \in 1..MaxEvents : Cleanup(u)
    \/ \E u \in 1..MaxEvents, ok \in BOOLEAN : Except(u, ok)

\* ------------------------------------------------- the functions by themselves
EXE == <<DOT, "e", "x", "e">>

\* The extensions the lookups are tried on: every extension of the tables,
\* two that are in no table, and the empty suffix.
ProbeExtensions ==
    {JPG, JPEG, PNG, BMP, GIF, TIFF, WEBP, PDF, DOCX, TXT, MP4, AVI, MOV, MKV,
     WEBM, MP3, CSV, XLSX, JSON, ZIP, EXE, <<>>}

\* ".png" -> ".Png"
Capitalized(ext) ==
    [i \in DOMAIN ext |-> IF i = 2 THEN UpperChar(ext[i]) ELSE ext[i]]

\* An extension as a file name may spell it.
CaseVariants(ext) == {ext, Upper(ext), Capitalized(ext)}

\* The lookups process_file makes for a file with suffix ext:
\* get_file_category, then the option list.
ProbeUpload(base, ext) ==
    /\ probe = NoProbe
    /\ ext \in CaseVariants(base)
    /\ LET category == get_file_category(variant, ext)
       IN  probe' = [NoProbe EXCEPT
                       !.op = "upload", !.base = base, !.ext = ext,
                       !.category = category,
                       !.options = IF category = "unknown" THEN <<>>
                                   ELSE conversion_options(variant, category, ext)]
    /\ UNCHANGED <<variant, user_data, tasks, kb, disk>>

\* The converters of the program: src/bot_simple.py has convert_image only.
Converters(v) ==
    IF v = "bot" THEN {"image", "document", "video", "data"} ELSE {"image"}

\* The source suffixes and the target formats the converters are called
\* with: those of the tables, an upper-case spelling, and strangers.
ProbeSources == {PNG, JPG_UPPER, PDF, DOCX, TXT, MP4, CSV, XLSX, JSON, ZIP}

ProbeTargets ==
    {Tail(JPG), Tail(PNG), Tail(PDF), Tail(WEBP), Tail(TXT), Tail(DOCX),
     Tail(MP4), Tail(GIF), Tail(MP3), Tail(CSV), Tail(XLSX), Tail(JSON),
     Tail(EXE)}

\* A direct call converter(input_path, output_path, target_format).
Call(converter, suffix, target_format, codec) ==
    CASE converter = "image"    -> convert_image(target_format, codec)
      [] converter = "document" -> convert_document(suffix, target_format, codec)
      [] converter = "video"    -> convert_video(target_format, codec)
      [] converter = "data"     -> convert_data(suffix, target_format, codec)

ProbeConvert(converter, suffix, target_format, codec) ==
    /\ probe = NoProbe
    /\ converter \in Converters(variant)
    /\ probe' = [NoProbe EXCEPT
                    !.op = "convert", !.base = suffix, !.ext = suffix,
                    !.category = converter, !.target = target_format,
                    !.codec = codec,
                    !.result = Call(converter, suffix, target_format, codec)]
    /\ UNCHANGED <<variant, user_data, tasks, kb, disk>>

PureNext ==
    \/ \E base \in ProbeExtensions, ext \in UNION {CaseVariants(b) : b \in ProbeExtensions} :
           ProbeUpload(base, ext)
    \/ \E converter \in {"image", "document", "video", "data"},
          suffix \in ProbeSources, target_format \in ProbeTargets,
          codec \in CodecOutcomes :
           ProbeConvert(converter, suffix, target_format, codec)

PureSpec == Init /\ [][PureNext]_vars

\* run_polling keeps the event loop running: a handler step that stays
\* possible is eventually taken.
FairSpec == Spec /\ WF_vars(HandlerStep)

TypeOK ==
    /\ variant \in Variants
    /\ Len(tasks) <= MaxEvents
    /\ disk \subseteq Ids

\* ----------------------------------------------------------------- claims
Issued(t, m) == InList(m, t.out)

\* Task u has finished and no later update has been handled yet.
JustFinished(u) ==
    /\ tasks[u].pc = "done"
    /\ \A w \in Ids : w > u => tasks[w].pc = "queued"

\* The selection of task t started a conversion (a staged file was found).
Selected(t) == t.type = "cb" /\ t.file_info # NoFile

\* The conversion of t reached one of its ends: the document and the
\* success notice, the failure message, or the error message.
Ended(t) ==
    /\ Selected(t) /\ t.pc = "done"
    /\ Issued(t, "completed") \/ Issued(t, "failed") \/ Issued(t, "error")

\* The target of t as an extension of the tables.
TargetExt(t) == <<DOT>> \o t.target_format

\* The acceptance conditions of an upload: size, category, options.
Acceptable(up) ==
    /\ up.file_size <= MAX_FILE_SIZE
    /\ get_file_category(variant, up.suffix) # "unknown"
    /\ conversion_options(variant, get_file_category(variant, up.suffix),
                          up.suffix) # <<>>

\* C1: every handle_conversion that acquired a temporary directory has
\* released it when the handler has finished, on every exit path.
C1_TempDirReleased ==
    \A u \in Ids : (tasks[u].pc = "done" /\ tasks[u].temp_dir) => u \notin disk

\* C2: a document is never delivered for a staged file that is not the
\* current staged file of its user at the moment of the delivery.
C2_NoStaleDelivery ==
    [][\A u \in Ids :
         (Issued(tasks'[u], "document") /\ ~Issued(tasks[u], "document"))
            => tasks'[u].file_info = user_data'[tasks'[u].key]]_vars

\* C2 witness: a document has just been sent while a newer upload of the
\* same user, arrived during the conversion, waits for its handler.
C2_Witness ==
    \E u \in Ids, w \in Ids :
        /\ tasks[u].pc = "notify" /\ Issued(tasks[u], "document")
        /\ w > u /\ tasks[w].type = "doc" /\ tasks[w].key = tasks[u].key
        /\ tasks[w].pc = "queued" /\ Acceptable(tasks[w].up)

\* C3: when a conversion has finished, with success or failure, the
\* session of its user is cleared (no staged file).
C3_SessionCleared ==
    \A u \in Ids :
        (Ended(tasks[u]) /\ JustFinished(u))
            => user_data[tasks[u].key] = NoFile

\* C4: a converter is invoked only with a target that the category of the
\* staged file can produce and that differs from the file's extension.
C4_TargetProducible ==
    \A u \in Ids :
        tasks[u].pc = "convert" =>
            /\ InList(TargetExt(tasks[u]),
                      AvailableFormats(variant, tasks[u].file_info.category))
            /\ TargetExt(tasks[u]) # Lower(tasks[u].file_info.suffix)

\* The target of t is among the options offered for its staged file.
Offered(t) ==
    InList(TargetExt(t),
           conversion_options(variant, t.file_info.category, t.file_info.suffix))

\* C5: a selection whose target is not offered for the current staged file
\* is rejected: no converter runs for it, no document is delivered, and the
\* staged file stays what it was.
C5_StaleSelectionRejected ==
    \A u \in Ids :
        (Selected(tasks[u]) /\ JustFinished(u) /\ ~Offered(tasks[u]))
            => /\ ~tasks[u].converted
               /\ ~Issued(tasks[u], "document")
               /\ user_data[tasks[u].key] = tasks[u].file_info

\* C6: an upload that meets the acceptance conditions is staged and its
\* options are offered.
C6_AcceptedUploadStaged ==
    \A u \in Ids :
        (tasks[u].type = "doc" /\ JustFinished(u) /\ Acceptable(tasks[u].up))
            => /\ user_data[tasks[u].key].file_id = u
               /\ tasks[u].out = <<"offer">>

\* C7: a rejected upload stages nothing and yields one of the three
\* diagnostics.
C7_RejectedUploadDiagnosed ==
    \A u \in Ids :
        (tasks[u].type = "doc" /\ tasks[u].pc = "done"
            /\ ~Acceptable(tasks[u].up))
            => /\ \A k \in Keys : user_data[k].file_id # u
               /\ tasks[u].out \in
                    {<<"too_large">>, <<"unsupported">>, <<"no_options">>}

\* The handled uploads of user k that were answered with an offer.
AcceptedUploads(k) ==
    {u \in Ids : /\ tasks[u].type = "doc" /\ tasks[u].key = k
                 /\ tasks[u].pc = "done" /\ Issued(tasks[u], "offer")}

\* The most recent of them, 0 when there is none.
LastAccepted(k) ==
    IF AcceptedUploads(k) = {} THEN 0
    ELSE CHOOSE u \in AcceptedUploads(k) : \A w \in AcceptedUploads(k) : w <= u

\* C8: the staged file of a user is the most recently accepted upload of
\* that user, and a conversion in progress works on that file.
C8_LastWriteWins ==
    /\ \A k \in Keys :
          /\ user_data[k].file_id = LastAccepted(k)
          /\ LastAccepted(k) # 0 =>
                /\ user_data[k].stem = tasks[LastAccepted(k)].up.stem
                /\ user_data[k].suffix = tasks[LastAccepted(k)].up.suffix
    /\ \A u \in Ids :
          tasks[u].pc \in {"download", "convert", "deliver"} =>
              tasks[u].file_info.file_id = LastAccepted(tasks[u].key)

\* C8 witness: two uploads of one user were accepted and the conversion
\* that follows works on the second.
C8_Witness ==
    \E a \in Ids, b \in Ids, u \in Ids :
        /\ a < b /\ b < u
        /\ {a, b} \subseteq AcceptedUploads(tasks[u].key)
        /\ tasks[u].pc = "convert"
        /\ tasks[u].file_info.file_id = b

\* C9: a document is sent only when the converter reported success and the
\* output exists; after any other conversion outcome no document is sent
\* and the failure message is issued.
C9_DeliveryOnlyOnSuccess ==
    \A u \in Ids :
        /\ Issued(tasks[u], "document") =>
              (tasks[u].converted /\ tasks[u].success /\ tasks[u].exists)
        /\ (tasks[u].converted /\ ~(tasks[u].success /\ tasks[u].exists)
              /\ tasks[u].pc \in {"cleanup", "except", "done"})
              => (~Issued(tasks[u], "document") /\ Issued(tasks[u], "failed"))

\* C9 witness: the converter failed after it had written the output, and
\* the handler answered with the failure message.
C9_Witness ==
    \E u \in Ids :
        /\ tasks[u].converted /\ ~tasks[u].success /\ tasks[u].exists
        /\ tasks[u].pc = "done" /\ Issued(tasks[u], "failed")

\* The conversions in flight for user k.
InFlight(k) ==
    {u \in Ids : tasks[u].type = "cb" /\ tasks[u].key = k
                 /\ tasks[u].pc \in Running}

\* C10: at most one conversion of a user is in flight, and no two tasks of
\* one user hold a temporary directory at the same time.
C10_OneConversionInFlight ==
    \A k \in Keys :
        /\ Cardinality(InFlight(k)) <= 1
        /\ Cardinality({u \in InFlight(k) : tasks[u].temp_dir}) <= 1

\* C10 witness: a second selection of the same user waits while the first
\* conversion runs and holds its temporary directory.
C10_Witness ==
    \E u \in Ids, w \in Ids :
        /\ u < w /\ tasks[u].key = tasks[w].key
        /\ tasks[u].type = "cb" /\ tasks[w].type = "cb"
        /\ tasks[u].pc = "convert" /\ u \in disk
        /\ tasks[w].pc = "queued"

\* C11: no update of one user has to wait for the converter call of
\* another user's conversion to return.
C11_OtherSessionsNotBlocked ==
    \A u \in Ids, w \in Ids :
        (/\ tasks[u].type = "cb" /\ tasks[u].pc = "convert"
         /\ tasks[w].pc = "queued" /\ tasks[w].key # tasks[u].key
         /\ \A x \in Ids : (x < w /\ x # u) => tasks[x].pc = "done")
            => CanDispatch(w)

\* C12: every conversion that has reached the converter call eventually
\* ends (its handler returns).
C12_ConversionTerminates ==
    \A u \in 1..MaxEvents :
        (u \in Ids /\ tasks[u].pc = "convert")
            ~> (u \in Ids /\ tasks[u].pc = "done")

\* C13: an upload of exactly the ceiling is accepted (staged and offered);
\* an upload one byte larger is answered with the file-too-large message
\* and stages nothing.
C13_SizeBoundary ==
    \A u \in Ids :
        (tasks[u].type = "doc" /\ JustFinished(u)) =>
            /\ (tasks[u].up.file_size = MAX_FILE_SIZE /\ Acceptable(tasks[u].up))
                  => (/\ user_data[tasks[u].key].file_id = u
                      /\ Issued(tasks[u], "offer"))
            /\ tasks[u].up.file_size = MAX_FILE_SIZE + 1
                  => (/\ user_data[tasks[u].key].file_id # u
                      /\ tasks[u].out = <<"too_large">>)

\* The table entry of a category.
Entry(category) ==
    LET table == SUPPORTED_CONVERSIONS(variant)
    IN  table[CHOOSE i \in DOMAIN table : table[i].category = category]

\* The position of x in list.
Pos(x, list) == CHOOSE i \in DOMAIN list : list[i] = x

\* The elements of a list.
Elems(list) == {list[i] : i \in DOMAIN list}

\* C14: for an accepted extension in any letter case, the option list never
\* holds the file's own extension, and it is the category's 'to' list, in
\* table order, without that extension.
C14_OwnFormatNeverOffered ==
    (probe.op = "upload" /\ probe.category # "unknown") =>
        LET to == Entry(probe.category).to
        IN  /\ ~InList(probe.base, probe.options)
            /\ ~InList(probe.ext, probe.options)
            /\ Elems(probe.options) = Elems(to) \ {probe.base}
            /\ \A i \in DOMAIN probe.options, j \in DOMAIN probe.options :
                  i < j => Pos(probe.options[i], to) < Pos(probe.options[j], to)

\* C14 witness: a file whose extension is spelled in upper case and is also
\* a producible format of its category.
C14_Witness ==
    /\ probe.op = "upload" /\ probe.category = "image"
    /\ probe.base = PNG /\ probe.ext = Upper(PNG)
    /\ InList(JPG, probe.options)

\* C15: every extension of a category's 'from' list, in any letter case,
\* is mapped to that category; an extension of no 'from' list is mapped to
\* 'unknown'; no extension is in two 'from' lists.
C15_CategoryLookup ==
    LET table == SUPPORTED_CONVERSIONS(variant)
    IN  /\ probe.op = "upload" =>
              /\ \A i \in DOMAIN table :
                    InList(probe.base, table[i].from)
                        => probe.category = table[i].category
              /\ (\A i \in DOMAIN table : ~InList(probe.base, table[i].from))
                        => probe.category = "unknown"
        /\ \A i \in DOMAIN table, j \in DOMAIN table :
              i # j => Elems(table[i].from) \cap Elems(table[j].from) = {}

\* C15 witness: an accepted extension in mixed case, of a category that is
\* not the first of the table.
C15_Witness ==
    /\ probe.op = "upload"
    /\ probe.base = CSV /\ probe.ext = Capitalized(CSV)
    /\ probe.category = "data"

\* C16 as stated: the options for photo.png are exactly jpg and webp.
C16_PngOptionsJpgWebp ==
    (probe.op = "upload" /\ probe.ext = PNG) => probe.options = <<JPG, WEBP>>

\* C16 as amended: the options for photo.png are the image 'to' list
\* without png: jpg and webp with the table of src/bot_simple.py, and jpg,
\* pdf and webp with the table of src/bot.py.
C16_PngOptionsByTable ==
    (probe.op = "upload" /\ probe.ext = PNG) =>
        /\ probe.category = "image"
        /\ ~InList(PNG, probe.options)
        /\ variant = "simple" => probe.options = <<JPG, WEBP>>
        /\ variant = "bot" => probe.options = <<JPG, PDF, WEBP>>

\* C16 witness: the lookup for photo.png with the table of src/bot.py.
C16_Witness ==
    /\ probe.op = "upload" /\ probe.ext = PNG /\ variant = "bot"
    /\ InList(PDF, probe.options)

\* The source/target pairs a converter has no branch for.  convert_image
\* and convert_video take every target (their last branch is unconditional).
Unsupported(converter, suffix, target_format) ==
    CASE converter = "document" ->
            <<Lower(suffix), target_format>> \notin
                {<<PDF, Tail(TXT)>>, <<DOCX, Tail(TXT)>>, <<TXT, Tail(PDF)>>}
      [] converter = "data" ->
            \/ Lower(suffix) \notin {CSV, XLSX, JSON}
            \/ target_format \notin {Tail(CSV), Tail(XLSX), Tail(JSON)}
      [] OTHER -> FALSE

\* C17: a converter returns False when it is called with a pair it has no
\* branch for and when a codec call raised.
C17_UnsupportedPairsFail ==
    probe.op = "convert" =>
        /\ Unsupported(probe.category, probe.base, probe.target)
              => ~probe.result.success
        /\ probe.result.caught => ~probe.result.success

\* C18: convert_video has closed every clip it opened when it returns.
C18_ClipsClosed ==
    (probe.op = "convert" /\ probe.category = "video")
        => probe.result.closed = probe.result.opened

\* The conversion of t ended without the success notice.
NonSuccess(t) == Ended(t) /\ ~Issued(t, "completed")

\* The failure texts issued for t.
FailureMessages(t) == {m \in {FailureMessage, ErrorMessage} : Issued(t, m)}

C20_SessionsIsolated ==
    [][/\ \A k \in Keys :
            user_data'[k] # user_data[k]
                => \E u \in Ids : tasks[u].key = k /\ tasks'[u] # tasks[u]
       /\ \A u \in Ids, w \in Ids :
            (tasks'[u] # tasks[u] /\ w # u)
                => (tasks'[w] = tasks[w] /\ ((w \in disk') <=> (w \in disk)))
      ]_vars

\* C20 witness: the conversion of one user has ended with an error while
\* another user has a staged file.
C20_Witness ==
    \E u \in Ids, k \in Keys :
        /\ tasks[u].type = "cb" /\ tasks[u].pc = "done"
        /\ tasks[u].error # "none"
        /\ k # tasks[u].key /\ user_data[k] # NoFile

\* An upload answered with the size or the file-type rejection.
Rejected(t) ==
    t.type = "doc" /\ t.out \in {<<"too_large">>, <<"unsupported">>}

\* C21: the handler step of an upload rejected as too large or as an
\* unknown type leaves every staged file as it was, and a selection that
\* finds a staged file takes the most recently accepted upload of its
\* user, never a rejected one.
C21_RejectedUploadKeepsStaged ==
    [][\A u \in Ids :
          /\ (tasks[u].pc = "queued" /\ tasks'[u].pc = "done"
                  /\ Rejected(tasks'[u]))
                => user_data' = user_data
          /\ (tasks[u].type = "cb" /\ tasks[u].file_info = NoFile
                  /\ tasks'[u].file_info # NoFile)
                => /\ tasks'[u].file_info.file_id = LastAccepted(tasks[u].key)
                   /\ ~Rejected(tasks[tasks'[u].file_info.file_id])
      ]_vars

\* C21 witness: an accepted upload, then a rejected one of the same user,
\* then a selection that converts the first.
C21_Witness ==
    \E a \in Ids, b \in Ids, u \in Ids :
        /\ a < b /\ b < u
        /\ tasks[a].key = tasks[u].key /\ tasks[b].key = tasks[u].key
        /\ a \in AcceptedUploads(tasks[u].key)
        /\ tasks[b].pc = "done" /\ Rejected(tasks[b])
        /\ tasks[u].type = "cb" /\ tasks[u].converted
        /\ tasks[u].file_info.file_id = a
        /\ tasks[u].file_info.suffix = tasks[a].up.suffix

\* C22: while the user of a pressed button has no staged file, the steps
\* of its handler create no temporary directory, make no download and no
\* converter call, issue nothing but the 'no file' message, and leave the
\* user without a staged file; a handler that returns has issued exactly
\* that message.
C22_IdleSelectionRejected ==
    [][\A u \in Ids :
          (/\ tasks[u].type = "cb" /\ tasks'[u] # tasks[u]
           /\ user_data[tasks[u].key] = NoFile)
              => /\ user_data' = user_data
                 /\ disk' = disk
                 /\ tasks'[u].pc \in {"answer", "check", "done"}
                 /\ ~tasks'[u].temp_dir /\ ~tasks'[u].converted
                 /\ tasks'[u].file_info = NoFile
                 /\ tasks'[u].out \in {<<>>, <<"no_file">>}
                 /\ (tasks'[u].pc = "done" /\ ~tasks'[u].raised)
                       => tasks'[u].out = <<"no_file">>
      ]_vars

\* C22 witness: a button was pressed by a user without a staged file and
\* the handler has answered with the 'no file' message.
C22_Witness ==
    \E u \in Ids :
        /\ tasks[u].type = "cb" /\ tasks[u].pc = "done"
        /\ user_data[tasks[u].key] = NoFile
        /\ tasks[u].out = <<"no_file">> /\ ~tasks[u].raised

\* C23: a converter called for a source extension of its own category and
\* a target that process_file offers for that extension, with codec calls
\* that work, returns True and has written the output.
C23_OfferedOptionsConvertible ==
    (/\ probe.op = "convert" /\ probe.codec = "ok"
     /\ probe.category = get_file_category(variant, probe.base)
     /\ InList(<<DOT>> \o probe.target,
               conversion_options(variant, probe.category, probe.base)))
        => (probe.result.success /\ probe.result.written)

\* The document of t was delivered: send_document was called and returned.
Delivered(t) == Issued(t, "document") /\ t.error # "send_document"

\* C24: a selection whose document was delivered issues neither the
\* failure nor the error message.
C24_NoFailureAfterDelivery ==
    \A u \in Ids :
        Delivered(tasks[u])
            => (/\ ~Issued(tasks[u], FailureMessage)
                /\ ~Issued(tasks[u], ErrorMessage))

=============================================================================
